---- MODULE Spec2Model ----
(***************************************************************************)
(* Directory / image tree model of apps/studio/src/lib/directory:          *)
(* DirectoryManager (index.ts), ImageManager (image.ts) and the main       *)
(* process scanner (electron/main/directory).                              *)
(*                                                                         *)
(* flatMap is directoryStructure.flatMap, a function from node id to the   *)
(* node object stored under it.  A node's children array is the sequence   *)
(* of the ids of the node objects it references; those objects are the     *)
(* values of flatMap, so a write through parent.children or through        *)
(* flatMap.get(id) is a write to flatMap[id].                              *)
(***************************************************************************)
EXTENDS Integers, Sequences, FiniteSets, TLC

\* ------------------------------------------------------------------ bounds
\* number of ids nanoid issues in one run
MaxIds == 2
\* number of image nodes in a tree whose statistics are computed
MaxStatImages == 3
\* number of ids nanoid issues in one run of scans
MaxScanIds == 8

\* --------------------------------------------------------------- constants
\* id: 'root'
RootId == 0
\* an id string that the store never returned
UnknownId == 99
\* JavaScript undefined, for an id-valued field
Undefined == 98

VARIABLES
    flatMap,           \* directoryStructure.flatMap, id -> DirectoryNode
    selectedNodeIds,   \* DirectoryManager.selectedNodeIds
    expandedNodeIds,   \* DirectoryManager.expandedNodeIds
    images,            \* ImageManager.images, id -> ImageInfo
    selectedImageIds,  \* ImageManager.selectedImageIds
    nextId,            \* number of ids nanoid has issued, plus one
    fs,                \* the entries of the real directory under rootPath
    out,               \* the value the last read-only call returned
    watchers,          \* the FSWatcher handles that fs.watch has returned
    delivered,         \* the change events the fs.watch callbacks were run for
    sent,              \* the DIRECTORY_CHANGED messages sent to the renderer
    disposed,          \* history: dispose() has been called
    last               \* history: the last call, what its id argument resolved to,
                       \* and the height of the subtree a removeNode call deleted

vars == <<flatMap, selectedNodeIds, expandedNodeIds, images,
          selectedImageIds, nextId, fs, out, watchers, delivered, sent,
          disposed, last>>

treeVars == <<flatMap, selectedNodeIds, expandedNodeIds>>
registryVars == <<images, selectedImageIds>>
watchVars == <<watchers, delivered, sent>>
auxVars == <<fs, out, watchers, delivered, sent>>

\* ------------------------------------------------------------------ values
\* path strings are sequences of characters
PathRoot == <<"/">>
PathArgs == { <<"/", "a">> }
SizeArgs == { 2 }

\* metadata.eyeDetection absent
NoEyeDetection == [detected |-> FALSE, isOpen |-> FALSE, confidence |-> 0]

\* a rootPath directory that holds nothing
NoEntries == << >>
\* no read-only call has returned yet
NoOutput == [op |-> "none"]

\* id arguments a caller can pass to the tree store: the ids it holds (the
\* reserved id among them) and an id that does not resolve
NodeArgIds == DOMAIN flatMap \cup {UnknownId}
\* id arguments a caller can pass to the registry, likewise
ImageArgIds == DOMAIN images \cup {UnknownId}

\* what an id argument resolves to in flatMap when the call is made
Target(id) ==
    IF id \notin DOMAIN flatMap THEN "unknown" ELSE flatMap[id].type

\* the number of levels of children below node id
RECURSIVE Height(_, _)
Height(map, id) ==
    IF id \notin DOMAIN map \/ map[id].children = <<>>
    THEN 0
    ELSE LET hs == { Height(map, map[id].children[i]) : i \in DOMAIN map[id].children }
         IN  1 + CHOOSE h \in hs : \A g \in hs : g <= h

Call(op, target, depth) == [op |-> op, target |-> target, depth |-> depth]

\* `parent.children` is an array for directory nodes and undefined for images
HasChildren(node) == node.type = "directory"

\* Map.prototype.delete
MapDelete(map, id) == [k \in DOMAIN map \ {id} |-> map[k]]

createEmptyStructure ==
    RootId :> [id |-> RootId, type |-> "directory", path |-> PathRoot,
               parentId |-> Undefined, children |-> <<>>, isExpanded |-> TRUE,
               size |-> 0, eyeDetection |-> NoEyeDetection]

Init ==
    /\ flatMap = createEmptyStructure
    /\ selectedNodeIds = {}
    /\ expandedNodeIds = {}
    /\ images = << >>
    /\ selectedImageIds = {}
    /\ nextId = 1
    /\ disposed = FALSE
    /\ fs = NoEntries
    /\ out = NoOutput
    /\ watchers = << >>
    /\ delivered = << >>
    /\ sent = << >>
    /\ last = Call("constructor", "none", 0)

\* ------------------------------------------------------- DirectoryManager
\* flatMap.set(id, node), then push onto the parent's children when the
\* parent resolves and has a children array
LinkNode(map, node) ==
    LET withNew == map @@ (node.id :> node)
    IN  IF node.parentId \in DOMAIN withNew /\ HasChildren(withNew[node.parentId])
        THEN [withNew EXCEPT ![node.parentId].children = Append(@, node.id)]
        ELSE withNew

AddDirectory(path, parentId) ==
    /\ nextId <= MaxIds
    /\ flatMap' = LinkNode(flatMap,
                           [id |-> nextId, type |-> "directory", path |-> path,
                            parentId |-> parentId, children |-> <<>>,
                            isExpanded |-> FALSE, size |-> 0,
                            eyeDetection |-> NoEyeDetection])
    /\ nextId' = nextId + 1
    /\ last' = Call("addDirectory", Target(parentId), 0)
    /\ UNCHANGED auxVars
    /\ UNCHANGED <<selectedNodeIds, expandedNodeIds, images, selectedImageIds, disposed>>

AddImageNode(path, parentId, size) ==
    /\ nextId <= MaxIds
    /\ flatMap' = LinkNode(flatMap,
                           [id |-> nextId, type |-> "image", path |-> path,
                            parentId |-> parentId, children |-> <<>>,
                            isExpanded |-> FALSE, size |-> size,
                            eyeDetection |-> NoEyeDetection])
    /\ nextId' = nextId + 1
    /\ last' = Call("addImageNode", Target(parentId), 0)
    /\ UNCHANGED auxVars
    /\ UNCHANGED <<selectedNodeIds, expandedNodeIds, images, selectedImageIds, disposed>>

\* removeNode on the store st = [map, sel, exp]
RECURSIVE removeNode(_, _)
RECURSIVE removeChildren(_, _)
\* removeNode without the descent into node.children
removeNodeShallow(st, id) ==
    IF id \notin DOMAIN st.map
    THEN st
    ELSE LET node == st.map[id]
             unlinked ==
                 IF /\ node.parentId # Undefined
                    /\ node.parentId \in DOMAIN st.map
                    /\ HasChildren(st.map[node.parentId])
                 THEN [st EXCEPT !.map[node.parentId].children =
                                     SelectSeq(@, LAMBDA c : c # id)]
                 ELSE st
         IN  [map |-> MapDelete(unlinked.map, id),
              sel |-> unlinked.sel \ {id},
              exp |-> unlinked.exp \ {id}]

\* removeNode with the two set deletions made before the node is looked up
removeNodeEager(st, id) ==
    LET cleared == [st EXCEPT !.sel = @ \ {id}, !.exp = @ \ {id}]
    IN  IF id \notin DOMAIN st.map
        THEN cleared
        ELSE LET node == st.map[id]
                 unlinked ==
                     IF /\ node.parentId # Undefined
                        /\ node.parentId \in DOMAIN st.map
                        /\ HasChildren(st.map[node.parentId])
                     THEN [cleared EXCEPT !.map[node.parentId].children =
                                              SelectSeq(@, LAMBDA c : c # id)]
                     ELSE cleared
                 pruned ==
                     IF HasChildren(node)
                     THEN removeChildren(unlinked, node.children)
                     ELSE unlinked
             IN  [pruned EXCEPT !.map = MapDelete(@, id)]

removeNode(st, id) ==
    IF id \notin DOMAIN st.map
    THEN st
    ELSE LET node == st.map[id]
             unlinked ==
                 IF /\ node.parentId # Undefined
                    /\ node.parentId \in DOMAIN st.map
                    /\ HasChildren(st.map[node.parentId])
                 THEN [st EXCEPT !.map[node.parentId].children =
                                     SelectSeq(@, LAMBDA c : c # id)]
                 ELSE st
             pruned ==
                 IF HasChildren(node)
                 THEN removeChildren(unlinked, node.children)
                 ELSE unlinked
         IN  [map |-> MapDelete(pruned.map, id),
              sel |-> pruned.sel \ {id},
              exp |-> pruned.exp \ {id}]

\* node.children.forEach((child) => this.removeNode(child.id)), over the
\* array as it was when forEach started
removeChildren(st, children) ==
    IF children = <<>>
    THEN st
    ELSE removeChildren(removeNode(st, Head(children)), Tail(children))

Store == [map |-> flatMap, sel |-> selectedNodeIds, exp |-> expandedNodeIds]

\* removeNode that also removes the registry's records of the node's path
RemoveNodeWithRecords(id) ==
    /\ LET after == removeNode(Store, id)
       IN  /\ flatMap' = after.map
           /\ selectedNodeIds' = after.sel
           /\ expandedNodeIds' = after.exp
           /\ last' = Call("removeNode", Target(id), Height(flatMap, id))
           /\ UNCHANGED auxVars
    /\ images' = [i \in { j \in DOMAIN images :
                             id \in DOMAIN flatMap => images[j].path # flatMap[id].path }
                   |-> images[i]]
    /\ selectedImageIds' = selectedImageIds \cap DOMAIN images'
    /\ UNCHANGED <<nextId, disposed>>

RemoveNode(id) ==
    /\ LET after == removeNode(Store, id)
       IN  /\ flatMap' = after.map
           /\ selectedNodeIds' = after.sel
           /\ expandedNodeIds' = after.exp
           /\ last' = Call("removeNode", Target(id), Height(flatMap, id))
           /\ UNCHANGED auxVars
    /\ UNCHANGED <<images, selectedImageIds, nextId, disposed>>

ToggleNodeSelection(id) ==
    /\ selectedNodeIds' = IF id \in selectedNodeIds
                          THEN selectedNodeIds \ {id}
                          ELSE selectedNodeIds \cup {id}
    /\ last' = Call("toggleNodeSelection", Target(id), 0)
    /\ UNCHANGED auxVars
    /\ UNCHANGED <<flatMap, expandedNodeIds, images, selectedImageIds,
                   nextId, disposed>>

\* toggleNodeExpansion with the node.type test left out of its guard
ToggleNodeExpansionAnyType(id) ==
    /\ IF id \notin DOMAIN flatMap
       THEN UNCHANGED <<flatMap, expandedNodeIds>>
       ELSE IF id \in expandedNodeIds
            THEN /\ expandedNodeIds' = expandedNodeIds \ {id}
                 /\ flatMap' = [flatMap EXCEPT ![id].isExpanded = FALSE]
            ELSE /\ expandedNodeIds' = expandedNodeIds \cup {id}
                 /\ flatMap' = [flatMap EXCEPT ![id].isExpanded = TRUE]
    /\ last' = Call("toggleNodeExpansion", Target(id), 0)
    /\ UNCHANGED auxVars
    /\ UNCHANGED <<selectedNodeIds, images, selectedImageIds, nextId, disposed>>

ToggleNodeExpansion(id) ==
    /\ IF id \notin DOMAIN flatMap \/ flatMap[id].type # "directory"
       THEN UNCHANGED <<flatMap, expandedNodeIds>>
       ELSE IF id \in expandedNodeIds
            THEN /\ expandedNodeIds' = expandedNodeIds \ {id}
                 /\ flatMap' = [flatMap EXCEPT ![id].isExpanded = FALSE]
            ELSE /\ expandedNodeIds' = expandedNodeIds \cup {id}
                 /\ flatMap' = [flatMap EXCEPT ![id].isExpanded = TRUE]
    /\ last' = Call("toggleNodeExpansion", Target(id), 0)
    /\ UNCHANGED auxVars
    /\ UNCHANGED <<selectedNodeIds, images, selectedImageIds, nextId, disposed>>

ClearSelection ==
    /\ selectedNodeIds' = {}
    /\ last' = Call("clearSelection", "none", 0)
    /\ UNCHANGED auxVars
    /\ UNCHANGED <<flatMap, expandedNodeIds, images, selectedImageIds,
                   nextId, disposed>>

\* ----------------------------------------------------------- ImageManager
AddImage(path, size) ==
    /\ nextId <= MaxIds
    /\ images' = images @@ (nextId :> [id |-> nextId, path |-> path, size |-> size,
                                       eyeDetection |-> NoEyeDetection])
    /\ nextId' = nextId + 1
    /\ last' = Call("addImage", "none", 0)
    /\ UNCHANGED auxVars
    /\ UNCHANGED <<flatMap, selectedNodeIds, expandedNodeIds,
                   selectedImageIds, disposed>>

ToggleImageSelection(id) ==
    /\ selectedImageIds' = IF id \in selectedImageIds
                           THEN selectedImageIds \ {id}
                           ELSE selectedImageIds \cup {id}
    /\ last' = Call("toggleImageSelection", "none", 0)
    /\ UNCHANGED auxVars
    /\ UNCHANGED <<flatMap, selectedNodeIds, expandedNodeIds, images,
                   nextId, disposed>>

\* DirectoryManager.dispose, with ImageManager.dispose inlined
Dispose ==
    /\ images' = << >>
    /\ selectedImageIds' = {}
    /\ flatMap' = << >>
    /\ selectedNodeIds' = {}
    /\ expandedNodeIds' = {}
    /\ disposed' = TRUE
    /\ last' = Call("dispose", "none", 0)
    /\ UNCHANGED auxVars
    /\ UNCHANGED nextId

\* the DirectoryManager's operations
Next ==
    \/ \E p \in PathArgs, parentId \in NodeArgIds : AddDirectory(p, parentId)
    \/ \E p \in PathArgs, parentId \in NodeArgIds, s \in SizeArgs : AddImageNode(p, parentId, s)
    \/ \E id \in NodeArgIds : RemoveNode(id)
    \/ \E id \in NodeArgIds : ToggleNodeSelection(id)
    \/ \E id \in NodeArgIds : ToggleNodeExpansion(id)
    \/ ClearSelection
    \/ Dispose

Spec == Init /\ [][Next]_vars

\* the DirectoryManager's operations and those of its ImageManager
NextFull ==
    \/ Next
    \/ \E p \in PathArgs, s \in SizeArgs : AddImage(p, s)
    \/ \E id \in ImageArgIds : ToggleImageSelection(id)

SpecFull == Init /\ [][NextFull]_vars

\* ------------------------------------------------ directory statistics
\* String.prototype.startsWith
StartsWith(path, prefix) ==
    /\ Len(prefix) <= Len(path)
    /\ SubSeq(path, 1, Len(prefix)) = prefix

\* the ascending sequence of the elements of a finite set of numbers
RECURSIVE Ascending(_)
Ascending(S) ==
    IF S = {}
    THEN <<>>
    ELSE LET least == CHOOSE x \in S : \A y \in S : x <= y
         IN  <<least>> \o Ascending(S \ {least})

\* Array.from(flatMap.values()): a Map iterates in insertion order, and ids
\* are inserted in the order they are issued
MapValues(map) ==
    LET keys == Ascending(DOMAIN map)
    IN  [i \in DOMAIN keys |-> map[keys[i]]]

getImageNodesByDirectory(map, directoryPath) ==
    SelectSeq(MapValues(map),
              LAMBDA node : node.type = "image" /\ StartsWith(node.path, directoryPath))

\* the body of imageNodes.forEach in getDirectoryStats, on the counters acc
StatsStep(acc, node) ==
    LET sized == IF node.size # 0
                 THEN [acc EXCEPT !.totalSize = @ + node.size]
                 ELSE acc
    IN  IF node.eyeDetection.detected
        THEN [sized EXCEPT
                 !.openEyeImages = IF node.eyeDetection.isOpen THEN @ + 1 ELSE @,
                 !.closedEyeImages = IF node.eyeDetection.isOpen THEN @ ELSE @ + 1,
                 !.totalConfidence = @ + node.eyeDetection.confidence,
                 !.confidenceCount = @ + 1]
        ELSE sized

RECURSIVE StatsLoop(_, _)
StatsLoop(acc, imageNodes) ==
    IF imageNodes = <<>>
    THEN acc
    ELSE StatsLoop(StatsStep(acc, Head(imageNodes)), Tail(imageNodes))

\* a quotient of two numbers, kept as the fraction num / den
Quotient(num, den) == [num |-> num, den |-> den]

\* getDirectoryStats whose average divides by the number of matched images
getDirectoryStatsOverAll(map, directoryPath) ==
    LET imageNodes == getImageNodesByDirectory(map, directoryPath)
        acc == StatsLoop([openEyeImages |-> 0, closedEyeImages |-> 0, totalSize |-> 0,
                          totalConfidence |-> 0, confidenceCount |-> 0], imageNodes)
    IN  [totalImages |-> Len(imageNodes),
         openEyeImages |-> acc.openEyeImages,
         closedEyeImages |-> acc.closedEyeImages,
         totalSize |-> acc.totalSize,
         averageConfidence |->
             IF Len(imageNodes) > 0
             THEN Quotient(acc.totalConfidence, Len(imageNodes))
             ELSE Quotient(0, 1)]

getDirectoryStats(map, directoryPath) ==
    LET imageNodes == getImageNodesByDirectory(map, directoryPath)
        acc == StatsLoop([openEyeImages |-> 0, closedEyeImages |-> 0, totalSize |-> 0,
                          totalConfidence |-> 0, confidenceCount |-> 0], imageNodes)
    IN  [totalImages |-> Len(imageNodes),
         openEyeImages |-> acc.openEyeImages,
         closedEyeImages |-> acc.closedEyeImages,
         totalSize |-> acc.totalSize,
         averageConfidence |->
             IF acc.confidenceCount > 0
             THEN Quotient(acc.totalConfidence, acc.confidenceCount)
             ELSE Quotient(0, 1)]

\* DirectoryManager.totalStats
totalStats(map) == getDirectoryStats(map, << "/" >>)

GetDirectoryStats(directoryPath) ==
    /\ out' = [op |-> "getDirectoryStats", directoryPath |-> directoryPath,
               stats |-> getDirectoryStats(flatMap, directoryPath)]
    /\ last' = Call("getDirectoryStats", "none", 0)
    /\ UNCHANGED <<flatMap, selectedNodeIds, expandedNodeIds, images,
                   selectedImageIds, nextId, fs, disposed>>
    /\ UNCHANGED watchVars

\* confidences are hundredths: 0.8 is 80
EyeDetections ==
    { NoEyeDetection,
      [detected |-> TRUE, isOpen |-> TRUE, confidence |-> 80],
      [detected |-> TRUE, isOpen |-> FALSE, confidence |-> 60] }
StatPaths == { <<"/", "a">>, <<"/", "a", "b">>, <<"b">> }
StatSizes == { 0, 5 }
StatPrefixes == { <<"/">>, <<"/", "a">>, <<"b">>, <<>> }
ImageMetas == [path : StatPaths, size : StatSizes, eyeDetection : EyeDetections]

\* a tree of one directory and the image nodes metas under root, the image
\* metadata as the detection write-back has left it
StatsTree(metas) ==
    LET ids == 1 .. (Len(metas) + 1)
    IN  [id \in {RootId} \cup ids |->
            IF id = RootId
            THEN [createEmptyStructure[RootId] EXCEPT
                      !.children = [i \in ids |-> i]]
            ELSE IF id = 1
            THEN [id |-> 1, type |-> "directory", path |-> <<"/", "a">>,
                  parentId |-> RootId, children |-> <<>>, isExpanded |-> FALSE,
                  size |-> 0, eyeDetection |-> NoEyeDetection]
            ELSE [id |-> id, type |-> "image", path |-> metas[id - 1].path,
                  parentId |-> RootId, children |-> <<>>, isExpanded |-> FALSE,
                  size |-> metas[id - 1].size,
                  eyeDetection |-> metas[id - 1].eyeDetection]]

InitStats ==
    /\ \E n \in 0 .. MaxStatImages :
           \E metas \in [1 .. n -> ImageMetas] :
               /\ flatMap = StatsTree(metas)
               /\ nextId = n + 2
    /\ selectedNodeIds = {}
    /\ expandedNodeIds = {}
    /\ images = << >>
    /\ selectedImageIds = {}
    /\ disposed = FALSE
    /\ fs = NoEntries
    /\ out = NoOutput
    /\ watchers = << >>
    /\ delivered = << >>
    /\ sent = << >>
    /\ last = Call("constructor", "none", 0)

NextStats == \E prefix \in StatPrefixes : GetDirectoryStats(prefix)

SpecStats == InitStats /\ [][NextStats]_vars

\* ------------------------------------------------- ImageManager, in full
\* the longest ids array given to selectImages
MaxSelect == 2

\* the updates arguments of updateImage: Partial<ImageInfo>
UpdateArgs == { [eyeDetection |-> d] : d \in EyeDetections } \cup { [size |-> 7] }

\* { ...image, ...updates }
Merge(image, updates) ==
    [f \in DOMAIN image \cup DOMAIN updates |->
        IF f \in DOMAIN updates THEN updates[f] ELSE image[f]]

\* updateImage that sets the record whether or not the id is known
updateImageAlways(imgs, id, updates) ==
    IF id \in DOMAIN imgs
    THEN [imgs EXCEPT ![id] = Merge(@, updates)]
    ELSE imgs @@ (id :> Merge([id |-> id], updates))

\* ImageManager.updateImage, on the images map
updateImage(imgs, id, updates) ==
    IF id \in DOMAIN imgs
    THEN [imgs EXCEPT ![id] = Merge(@, updates)]
    ELSE imgs

UpdateImage(id, updates) ==
    /\ images' = updateImage(images, id, updates)
    /\ last' = Call("updateImage", "none", 0)
    /\ UNCHANGED auxVars
    /\ UNCHANGED <<flatMap, selectedNodeIds, expandedNodeIds,
                   selectedImageIds, nextId, disposed>>

UpdateEyeDetection(id, eyeDetection) ==
    /\ images' = IF id \in DOMAIN images
                 THEN updateImage(images, id, [eyeDetection |-> eyeDetection])
                 ELSE images
    /\ last' = Call("updateEyeDetection", "none", 0)
    /\ UNCHANGED auxVars
    /\ UNCHANGED <<flatMap, selectedNodeIds, expandedNodeIds,
                   selectedImageIds, nextId, disposed>>

RemoveImage(id) ==
    /\ images' = MapDelete(images, id)
    /\ selectedImageIds' = selectedImageIds \ {id}
    /\ last' = Call("removeImage", "none", 0)
    /\ UNCHANGED auxVars
    /\ UNCHANGED <<flatMap, selectedNodeIds, expandedNodeIds, nextId, disposed>>

\* ImageManager.clearSelection
ClearImageSelection ==
    /\ selectedImageIds' = {}
    /\ last' = Call("image.clearSelection", "none", 0)
    /\ UNCHANGED auxVars
    /\ UNCHANGED <<flatMap, selectedNodeIds, expandedNodeIds, images,
                   nextId, disposed>>

\* the ids arrays given to selectImages
IdArrays == UNION { [1 .. n -> ImageArgIds] : n \in 0 .. MaxSelect }
Elements(ids) == { ids[i] : i \in DOMAIN ids }

\* selectImages without the clearSelection
SelectImagesAdding(ids) ==
    /\ selectedImageIds' = selectedImageIds \cup Elements(ids)
    /\ last' = Call("selectImages",
                    IF selectedImageIds \subseteq Elements(ids) THEN "none" ELSE "dropped",
                    Len(ids))
    /\ UNCHANGED auxVars
    /\ UNCHANGED <<flatMap, selectedNodeIds, expandedNodeIds, images,
                   nextId, disposed>>

\* ImageManager.selectImages; last tells whether a selected id is not among
\* ids, and how many ids there are
SelectImages(ids) ==
    /\ selectedImageIds' = {} \cup Elements(ids)
    /\ last' = Call("selectImages",
                    IF selectedImageIds \subseteq Elements(ids) THEN "none" ELSE "dropped",
                    Len(ids))
    /\ UNCHANGED auxVars
    /\ UNCHANGED <<flatMap, selectedNodeIds, expandedNodeIds, images,
                   nextId, disposed>>

\* ImageManager.dispose
DisposeImages ==
    /\ images' = << >>
    /\ selectedImageIds' = {}
    /\ last' = Call("image.dispose", "none", 0)
    /\ UNCHANGED auxVars
    /\ UNCHANGED <<flatMap, selectedNodeIds, expandedNodeIds, nextId, disposed>>

\* the derived views, on the images map
allImages(imgs) == MapValues(imgs)
openEyeImages(imgs) ==
    SelectSeq(allImages(imgs),
              LAMBDA img : img.eyeDetection.detected /\ img.eyeDetection.isOpen = TRUE)
\* closedEyeImages that takes an isOpen that is not true for false
closedEyeImagesNotOpen(imgs) ==
    SelectSeq(allImages(imgs),
              LAMBDA img : ~(img.eyeDetection.detected /\ img.eyeDetection.isOpen))
closedEyeImages(imgs) ==
    SelectSeq(allImages(imgs),
              LAMBDA img : img.eyeDetection.detected /\ img.eyeDetection.isOpen = FALSE)
detectedImages(imgs) ==
    SelectSeq(allImages(imgs), LAMBDA img : img.eyeDetection.detected)
undetectedImages(imgs) ==
    SelectSeq(allImages(imgs), LAMBDA img : ~img.eyeDetection.detected)

NextRegistry ==
    \/ \E p \in PathArgs, s \in SizeArgs : AddImage(p, s)
    \/ \E id \in ImageArgIds, updates \in UpdateArgs : UpdateImage(id, updates)
    \/ \E id \in ImageArgIds, d \in EyeDetections \ {NoEyeDetection} :
           UpdateEyeDetection(id, d)
    \/ \E id \in ImageArgIds : RemoveImage(id)
    \/ \E id \in ImageArgIds : ToggleImageSelection(id)
    \/ \E ids \in IdArrays : SelectImages(ids)
    \/ ClearImageSelection
    \/ DisposeImages

SpecRegistry == Init /\ [][NextRegistry]_vars

\* the DirectoryManager's operations before dispose() and the ImageManager's
\* operations, side by side; an id that a store does not hold is given to
\* the operations that look it up
NextStores ==
    \/ \E p \in PathArgs, parentId \in DOMAIN flatMap : AddDirectory(p, parentId)
    \/ \E p \in PathArgs, parentId \in DOMAIN flatMap, s \in SizeArgs :
           AddImageNode(p, parentId, s)
    \/ \E id \in NodeArgIds : RemoveNode(id)
    \/ \E id \in DOMAIN flatMap : ToggleNodeSelection(id)
    \/ \E id \in NodeArgIds : ToggleNodeExpansion(id)
    \/ ClearSelection
    \/ \E p \in PathArgs, s \in SizeArgs : AddImage(p, s)
    \/ \E id \in ImageArgIds : UpdateImage(id, [size |-> 7])
    \/ \E id \in ImageArgIds, d \in EyeDetections \ {NoEyeDetection} :
           UpdateEyeDetection(id, d)
    \/ \E id \in ImageArgIds : RemoveImage(id)
    \/ \E id \in DOMAIN images : ToggleImageSelection(id)
    \/ \E id \in DOMAIN images : SelectImages(<< id >>)
    \/ ClearImageSelection
    \/ DisposeImages

SpecStores == Init /\ [][NextStores]_vars

\* ------------------------------------------------------------- scanner
\* An entry of the file system is keyed by its names below the directory
\* BasePath, e.g. <<"d", "p.JPG">> for /r/d/p.JPG. It has a kind and a size;
\* statFails / readdirFails say that fs.statSync / fs.readdirSync of it
\* throws, content is what getImageDimensions finds in the file.
DirNames == { "d", "e" }
\* fs.readdirSync lists names in this order
NameOrder == << "d", "e", "n.txt", "p.JPG", "q.png" >>
EntrySize == 5
\* the number of entries whose stat or readdir fails
MaxFaults == 1
\* the entries a scanned directory can hold
FsPaths ==
    { <<"d">>, <<"d", "e">>, <<"d", "p.JPG">>, <<"d", "e", "q.png">>,
      <<"e">>, <<"e", "q.png">>, <<"p.JPG">>, <<"n.txt">> }
Entry(p) ==
    [kind |-> IF p[Len(p)] \in DirNames THEN "directory" ELSE "file",
     size |-> EntrySize, statFails |-> FALSE, readdirFails |-> FALSE,
     content |-> "png"]
\* every entry lies in a directory that exists
ParentsExist(paths) ==
    \A p \in paths : Len(p) > 1 => SubSeq(p, 1, Len(p) - 1) \in paths
Directories == { [p \in paths |-> Entry(p)] : paths \in { P \in SUBSET FsPaths : ParentsExist(P) } }

\* what a file starts with: the PNG signature, the JPEG marker, something
\* else, or nothing that fs.readFileSync can read
Contents == { "png", "jpeg", "other", "unreadable" }
\* the entries of dir that are files
Files(dir) == { p \in DOMAIN dir : dir[p].kind = "file" }
\* dir with the stat of the entries in S failing
WithStatFailing(dir, S) ==
    [p \in DOMAIN dir |-> IF p \in S THEN [dir[p] EXCEPT !.statFails = TRUE] ELSE dir[p]]
\* dir with the readdir of the directories in S failing
WithReaddirFailing(dir, S) ==
    [p \in DOMAIN dir |-> IF p \in S THEN [dir[p] EXCEPT !.readdirFails = TRUE] ELSE dir[p]]
\* dir with every file starting with content
WithContent(dir, content) ==
    [p \in DOMAIN dir |-> IF p \in Files(dir) THEN [dir[p] EXCEPT !.content = content] ELSE dir[p]]
\* the failures and contents a directory tree can have: the entries whose
\* stat fails, the directories whose readdir fails, the files' content
Faults(dir) ==
    { f \in [stat : SUBSET DOMAIN dir,
             readdir : SUBSET { p \in DOMAIN dir : dir[p].kind = "directory" },
             content : Contents] :
        Cardinality(f.stat) + Cardinality(f.readdir) <= MaxFaults }
\* the directory trees a scan can meet, with at most MaxFaults failing entries
FaultyDirectories ==
    UNION { { WithContent(WithReaddirFailing(WithStatFailing(dir, f.stat), f.readdir),
                          f.content) : f \in Faults(dir) } :
            dir \in Directories }

\* parentPath of a record directly under rootPath, in a DirectoryInfo
PathUndefined == << "undefined" >>

\* the directory that holds the entries: a path is the sequence of its
\* segments and separators, '/r/d' is <<"/", "r", "/", "d">>
BasePath == << "/", "r" >>

\* path.join(directory, item)
PathJoin(directory, item) == directory \o << "/", item >>

\* the path of the entry keyed names
RECURSIVE PathOf(_)
PathOf(names) ==
    IF names = <<>>
    THEN BasePath
    ELSE PathJoin(PathOf(SubSeq(names, 1, Len(names) - 1)), names[Len(names)])

\* path.relative that leaves the path as it is
PathRelativeKept(from, to) == to

\* path.relative(from, to), for a path to at or below from
PathRelative(from, to) ==
    IF to = from
    THEN <<>>
    ELSE IF StartsWith(to, from \o << "/" >>)
    THEN SubSeq(to, Len(from) + 2, Len(to))
    ELSE to

\* path.relative(rootPath, path) of the entry keyed names
RelativePath(rootPath, names) == PathRelative(PathOf(rootPath), PathOf(names))

\* path.extname(filename)
ExtName(filename) ==
    CASE filename = "p.JPG" -> ".JPG"
      [] filename = "q.png" -> ".png"
      [] filename = "n.txt" -> ".txt"
      [] OTHER -> ""

\* String.prototype.toLowerCase, on an extension
ToLowerCase(ext) ==
    CASE ext = ".JPG" -> ".jpg"
      [] OTHER -> ext

imageExtensions ==
    { ".jpg", ".jpeg", ".png", ".gif", ".bmp", ".webp", ".svg", ".tiff", ".tif" }

\* isImageFile that compares the extension as it is spelled
isImageFileAsSpelled(filename) == ExtName(filename) \in imageExtensions

isImageFile(filename) == ToLowerCase(ExtName(filename)) \in imageExtensions

getMimeType(filename) ==
    LET ext == ToLowerCase(ExtName(filename))
    IN  CASE ext \in {".jpg", ".jpeg"} -> "image/jpeg"
          [] ext = ".png" -> "image/png"
          [] ext = ".gif" -> "image/gif"
          [] ext = ".bmp" -> "image/bmp"
          [] ext = ".webp" -> "image/webp"
          [] ext = ".svg" -> "image/svg+xml"
          [] ext \in {".tiff", ".tif"} -> "image/tiff"
          [] OTHER -> "application/octet-stream"

\* the width and height a PNG header holds
PngWidth == 4
PngHeight == 3
\* getImageDimensions returns null
NoDimensions == [width |-> 0, height |-> 0]

\* getImageDimensions: a readFileSync that throws is caught and gives null
getImageDimensions(stats) ==
    CASE stats.content = "unreadable" -> NoDimensions
      [] stats.content = "png" -> [width |-> PngWidth, height |-> PngHeight]
      [] stats.content = "jpeg" -> [width |-> 800, height |-> 600]
      [] OTHER -> NoDimensions

\* fs.existsSync(path)
existsSync(dir, names) == names = <<>> \/ names \in DOMAIN dir

\* fs.readdirSync(currentPath)
readdirSync(dir, currentPath) ==
    SelectSeq(NameOrder, LAMBDA item : Append(currentPath, item) \in DOMAIN dir)

\* fs.readdirSync(currentPath) throws: the directory is unreadable, or
\* currentPath is a file
readdirThrows(dir, currentPath) ==
    /\ currentPath \in DOMAIN dir
    /\ dir[currentPath].readdirFails \/ dir[currentPath].kind # "directory"

\* scanDirectoryRecursive: acc holds the directories and images arrays
RECURSIVE scanDirectoryRecursive(_, _, _, _, _, _)
RECURSIVE scanItems(_, _, _, _, _, _, _)
RECURSIVE scanItem(_, _, _, _, _, _, _)

\* scanDirectoryRecursive that passes includeSubdirectories on as true
scanDirectoryRecursiveDescending(dir, rootPath, currentPath, acc, includeImages, includeSubdirectories) ==
    IF readdirThrows(dir, currentPath)
    THEN acc
    ELSE scanItems(dir, rootPath, currentPath, readdirSync(dir, currentPath), acc,
                   includeImages, TRUE)

\* scanItems without the try / catch around an item: a stat that throws ends
\* the loop, in the catch around readdirSync
scanItemsAborting(dir, rootPath, currentPath, items, acc, includeImages, includeSubdirectories) ==
    IF items = <<>> \/ dir[Append(currentPath, Head(items))].statFails
    THEN acc
    ELSE scanItems(dir, rootPath, currentPath, Tail(items),
                   scanItem(dir, rootPath, currentPath, Head(items), acc,
                            includeImages, includeSubdirectories),
                   includeImages, includeSubdirectories)

\* scanItems that takes the files of a directory before its directories
scanItemsFilesFirst(dir, rootPath, currentPath, items, acc, includeImages, includeSubdirectories) ==
    LET isDirectory(item) == dir[Append(currentPath, item)].kind = "directory"
        ordered == SelectSeq(items, LAMBDA item : ~isDirectory(item))
                   \o SelectSeq(items, isDirectory)
    IN  IF items = <<>>
        THEN acc
        ELSE scanItems(dir, rootPath, currentPath, Tail(ordered),
                       scanItem(dir, rootPath, currentPath, Head(ordered), acc,
                                includeImages, includeSubdirectories),
                       includeImages, includeSubdirectories)

\* try { readdirSync; for ... } catch { log }
scanDirectoryRecursive(dir, rootPath, currentPath, acc, includeImages, includeSubdirectories) ==
    IF readdirThrows(dir, currentPath)
    THEN acc
    ELSE scanItems(dir, rootPath, currentPath, readdirSync(dir, currentPath), acc,
                   includeImages, includeSubdirectories)

\* `for (const item of items)`
scanItems(dir, rootPath, currentPath, items, acc, includeImages, includeSubdirectories) ==
    IF items = <<>>
    THEN acc
    ELSE scanItems(dir, rootPath, currentPath, Tail(items),
                   scanItem(dir, rootPath, currentPath, Head(items), acc,
                            includeImages, includeSubdirectories),
                   includeImages, includeSubdirectories)

\* the body of the loop: try { statSync; push ... } catch { log }
scanItem(dir, rootPath, currentPath, item, acc, includeImages, includeSubdirectories) ==
    LET itemPath == Append(currentPath, item)
        relativePath == PathRelative(PathOf(rootPath), PathJoin(PathOf(currentPath), item))
        parentPath == IF RelativePath(rootPath, currentPath) = <<>>
                      THEN PathRoot
                      ELSE RelativePath(rootPath, currentPath)
        stats == dir[itemPath]
        dimensions == getImageDimensions(stats)
        imageInfo == [path |-> relativePath, name |-> item,
                      parentPath |-> parentPath, size |-> stats.size,
                      mimeType |-> getMimeType(item)]
    IN  IF stats.statFails
        THEN acc
        ELSE IF stats.kind = "directory"
        THEN LET pushed ==
                     [acc EXCEPT !.directories =
                         Append(@, [path |-> relativePath, name |-> item,
                                    parentPath |-> IF parentPath = PathRoot
                                                   THEN PathUndefined
                                                   ELSE parentPath])]
             IN  IF includeSubdirectories
                 THEN scanDirectoryRecursive(dir, rootPath, itemPath, pushed,
                                             includeImages, includeSubdirectories)
                 ELSE pushed
        ELSE IF stats.kind = "file" /\ includeImages /\ isImageFile(item)
        THEN [acc EXCEPT !.images =
                 Append(@, IF dimensions = NoDimensions
                           THEN imageInfo
                           ELSE [path |-> imageInfo.path, name |-> imageInfo.name,
                                 parentPath |-> imageInfo.parentPath,
                                 size |-> imageInfo.size,
                                 mimeType |-> imageInfo.mimeType,
                                 dimensions |-> dimensions])]
        ELSE acc

\* the failure results of scanDirectoryStructure
ScanFailure(message) ==
    [success |-> FALSE, directories |-> <<>>, images |-> <<>>, error |-> message]
\* "디렉토리가 존재하지 않습니다", "경로가 디렉토리가 아닙니다", and the
\* message of the error that fs.statSync(rootPath) throws
ErrorNotExists == "directory does not exist"
ErrorNotDirectory == "path is not a directory"
ErrorStat == "EACCES: permission denied, stat"

\* scanDirectoryStructure without the isDirectory check of rootPath
scanDirectoryStructureUnchecked(dir, rootPath, includeImages, includeSubdirectories) ==
    LET acc == scanDirectoryRecursive(dir, rootPath, rootPath,
                                      [directories |-> <<>>, images |-> <<>>],
                                      includeImages, includeSubdirectories)
    IN  IF ~existsSync(dir, rootPath)
        THEN ScanFailure(ErrorNotExists)
        ELSE [success |-> TRUE, directories |-> acc.directories, images |-> acc.images]

scanDirectoryStructure(dir, rootPath, includeImages, includeSubdirectories) ==
    LET acc == scanDirectoryRecursive(dir, rootPath, rootPath,
                                      [directories |-> <<>>, images |-> <<>>],
                                      includeImages, includeSubdirectories)
    IN  IF ~existsSync(dir, rootPath)
        THEN ScanFailure(ErrorNotExists)
        ELSE IF rootPath \in DOMAIN dir /\ dir[rootPath].statFails
        THEN ScanFailure(ErrorStat)
        ELSE IF rootPath \in DOMAIN dir /\ dir[rootPath].kind # "directory"
        THEN ScanFailure(ErrorNotDirectory)
        ELSE [success |-> TRUE, directories |-> acc.directories, images |-> acc.images]

\* the handler of MainChannels.SCAN_DIRECTORY_STRUCTURE
HandleScanDirectoryStructure(rootPath, includeImages, includeSubdirectories) ==
    /\ out' = [op |-> "SCAN_DIRECTORY_STRUCTURE", rootPath |-> rootPath,
               includeImages |-> includeImages,
               includeSubdirectories |-> includeSubdirectories,
               result |-> scanDirectoryStructure(fs, rootPath, includeImages,
                                                 includeSubdirectories)]
    /\ last' = Call("SCAN_DIRECTORY_STRUCTURE", "none", 0)
    /\ UNCHANGED <<flatMap, selectedNodeIds, expandedNodeIds, images,
                   selectedImageIds, nextId, fs, disposed>>
    /\ UNCHANGED watchVars

\* the rootPath arguments: the directory of the entries, a directory below
\* it, a file, a path that does not exist
RootArgs == { <<>>, <<"d">>, <<"p.JPG">>, <<"zz">> }

InitScanner ==
    /\ fs \in FaultyDirectories
    /\ flatMap = createEmptyStructure
    /\ selectedNodeIds = {}
    /\ expandedNodeIds = {}
    /\ images = << >>
    /\ selectedImageIds = {}
    /\ nextId = 1
    /\ disposed = FALSE
    /\ out = NoOutput
    /\ watchers = << >>
    /\ delivered = << >>
    /\ sent = << >>
    /\ last = Call("constructor", "none", 0)

NextScanner ==
    \E rootPath \in RootArgs, includeImages \in BOOLEAN, includeSubdirectories \in BOOLEAN :
        HandleScanDirectoryStructure(rootPath, includeImages, includeSubdirectories)

SpecScanner == InitScanner /\ [][NextScanner]_vars

\* ------------------------------------------------------------- watcher
\* the number of fs.watch handles, and of change events
MaxWatchers == 2
MaxEvents == 2

\* the directoryPath arguments: the directory of the entries, a directory
\* below it, a path that does not exist
WatchArgs == { <<>>, <<"d">>, <<"zz">> }
\* filename of a change event that carries none
NoFilename == "null"
EventTypes == { "rename", "change" }
Filenames == { "p.JPG", NoFilename }

\* the result of the WATCH_DIRECTORY handler when watchDirectory throws
WatchFailure(message) == [success |-> FALSE, error |-> message]

\* watchDirectory without the existsSync check, on an fs.watch that takes
\* any path
WatchDirectoryUnchecked(directoryPath, recursive) ==
    /\ Len(watchers) < MaxWatchers
    /\ watchers' = Append(watchers, [directoryPath |-> directoryPath,
                                     recursive |-> recursive])
    /\ out' = [op |-> "WATCH_DIRECTORY", directoryPath |-> directoryPath,
               result |-> [success |-> TRUE]]
    /\ last' = Call("WATCH_DIRECTORY", "none", 0)
    /\ UNCHANGED <<flatMap, selectedNodeIds, expandedNodeIds, images,
                   selectedImageIds, nextId, fs, disposed, delivered, sent>>

\* the handler of MainChannels.WATCH_DIRECTORY around watchDirectory: the
\* handle that fs.watch returns is kept by nothing and closed by nothing
WatchDirectory(directoryPath, recursive) ==
    /\ Len(watchers) < MaxWatchers
    /\ IF existsSync(fs, directoryPath)
       THEN /\ watchers' = Append(watchers, [directoryPath |-> directoryPath,
                                             recursive |-> recursive])
            /\ out' = [op |-> "WATCH_DIRECTORY", directoryPath |-> directoryPath,
                       result |-> [success |-> TRUE]]
       ELSE /\ watchers' = watchers
            /\ out' = [op |-> "WATCH_DIRECTORY", directoryPath |-> directoryPath,
                       result |-> WatchFailure(ErrorNotExists)]
    /\ last' = Call("WATCH_DIRECTORY", "none", 0)
    /\ UNCHANGED <<flatMap, selectedNodeIds, expandedNodeIds, images,
                   selectedImageIds, nextId, fs, disposed, delivered, sent>>

\* the callback given to fs.watch, run for a change below the path of the
\* handle w: it logs an event that has a filename; the
\* webContents.send(MainChannels.DIRECTORY_CHANGED, ...) is commented out, so
\* sent stays as it is
WatchCallback(w, eventType, filename) ==
    /\ Len(delivered) < MaxEvents
    /\ delivered' = Append(delivered,
                           [directoryPath |-> watchers[w].directoryPath,
                            eventType |-> eventType, filename |-> filename,
                            logged |-> filename # NoFilename])
    /\ sent' = sent
    /\ last' = Call("fs.watch callback", "none", 0)
    /\ UNCHANGED <<flatMap, selectedNodeIds, expandedNodeIds, images,
                   selectedImageIds, nextId, fs, out, disposed, watchers>>

InitWatch ==
    /\ fs \in { dir \in Directories : DOMAIN dir \subseteq { <<"d">> } }
    /\ flatMap = createEmptyStructure
    /\ selectedNodeIds = {}
    /\ expandedNodeIds = {}
    /\ images = << >>
    /\ selectedImageIds = {}
    /\ nextId = 1
    /\ disposed = FALSE
    /\ out = NoOutput
    /\ watchers = << >>
    /\ delivered = << >>
    /\ sent = << >>
    /\ last = Call("constructor", "none", 0)

NextWatch ==
    \/ \E directoryPath \in WatchArgs, recursive \in BOOLEAN :
           WatchDirectory(directoryPath, recursive)
    \/ \E w \in DOMAIN watchers, eventType \in EventTypes, filename \in Filenames :
           WatchCallback(w, eventType, filename)

SpecWatch == InitWatch /\ [][NextWatch]_vars

\* the operating system delivers the events, and the handlers run
SpecWatchFair == SpecWatch /\ WF_vars(NextWatch)

\* -------------------------------------------------- integration coordinator
\* getNodeByPath that looks among the directory nodes only
getNodeByPathAmongDirectories(map, path) ==
    LET found == SelectSeq(MapValues(map),
                           LAMBDA node : node.type = "directory" /\ node.path = path)
    IN  IF found = <<>> THEN Undefined ELSE Head(found).id

\* DirectoryManager.getNodeByPath: the id of the first node with that path
getNodeByPath(map, path) ==
    LET found == SelectSeq(MapValues(map), LAMBDA node : node.path = path)
    IN  IF found = <<>> THEN Undefined ELSE Head(found).id

\* The reconciliation of a scan result into the tree store, on
\* st = [map, sel, exp, next]: a record whose path no node has becomes a node
\* under the node of its parentPath, a known image has its size refreshed.
ReconcileParent(map, parentPath) ==
    IF parentPath = PathUndefined \/ getNodeByPath(map, parentPath) = Undefined
    THEN RootId
    ELSE getNodeByPath(map, parentPath)

RECURSIVE ReconcileDirectories(_, _)
ReconcileDirectories(st, directories) ==
    IF directories = <<>>
    THEN st
    ELSE LET info == Head(directories)
             created ==
                 IF getNodeByPath(st.map, info.path) # Undefined
                 THEN st
                 ELSE [st EXCEPT
                          !.map = LinkNode(@,
                              [id |-> st.next, type |-> "directory", path |-> info.path,
                               parentId |-> ReconcileParent(st.map, info.parentPath),
                               children |-> <<>>, isExpanded |-> FALSE, size |-> 0,
                               eyeDetection |-> NoEyeDetection]),
                          !.next = @ + 1]
         IN  ReconcileDirectories(created, Tail(directories))

RECURSIVE ReconcileImages(_, _)
ReconcileImages(st, imageInfos) ==
    IF imageInfos = <<>>
    THEN st
    ELSE LET info == Head(imageInfos)
             known == getNodeByPath(st.map, info.path)
             merged ==
                 IF known # Undefined
                 THEN [st EXCEPT !.map[known].size = info.size]
                 ELSE [st EXCEPT
                          !.map = LinkNode(@,
                              [id |-> st.next, type |-> "image", path |-> info.path,
                               parentId |-> ReconcileParent(st.map, info.parentPath),
                               children |-> <<>>, isExpanded |-> FALSE,
                               size |-> info.size, eyeDetection |-> NoEyeDetection]),
                          !.next = @ + 1]
         IN  ReconcileImages(merged, Tail(imageInfos))

\* nodes whose entry the scan no longer reports are removed
RECURSIVE ReconcileRemovals(_, _, _)
ReconcileRemovals(st, ids, paths) ==
    IF ids = <<>>
    THEN st
    ELSE LET id == Head(ids)
             stale == /\ id \in DOMAIN st.map
                      /\ id # RootId
                      /\ st.map[id].path \notin paths
             removed == removeNode([map |-> st.map, sel |-> st.sel, exp |-> st.exp], id)
         IN  ReconcileRemovals(
                 IF stale
                 THEN [st EXCEPT !.map = removed.map, !.sel = removed.sel,
                                 !.exp = removed.exp]
                 ELSE st,
                 Tail(ids), paths)

Reconcile(st, result) ==
    LET added == ReconcileImages(ReconcileDirectories(st, result.directories),
                                 result.images)
        paths == { result.directories[i].path : i \in DOMAIN result.directories }
                 \cup { result.images[i].path : i \in DOMAIN result.images }
    IN  ReconcileRemovals(added, Ascending(DOMAIN added.map), paths)

\* IntegratedDirectoryManager.scanDirectoryStructure / refreshDirectory: the
\* scan over IPC, then the reconciliation of its result
ScanDirectoryStructure(includeImages, includeSubdirectories) ==
    LET result == scanDirectoryStructure(fs, <<>>, includeImages, includeSubdirectories)
        after == Reconcile([map |-> flatMap, sel |-> selectedNodeIds,
                            exp |-> expandedNodeIds, next |-> nextId], result)
    IN  /\ after.next <= MaxScanIds + 1
        /\ flatMap' = after.map
        /\ selectedNodeIds' = after.sel
        /\ expandedNodeIds' = after.exp
        /\ nextId' = after.next
        /\ out' = [op |-> "scanDirectoryStructure",
                   includeImages |-> includeImages,
                   includeSubdirectories |-> includeSubdirectories,
                   result |-> result,
                   again |-> /\ out.op = "scanDirectoryStructure"
                             /\ out.includeImages = includeImages
                             /\ out.includeSubdirectories = includeSubdirectories]
        /\ last' = Call("scanDirectoryStructure", "none", 0)
        /\ UNCHANGED <<images, selectedImageIds, fs, disposed>>
        /\ UNCHANGED watchVars

InitScan ==
    /\ fs \in Directories
    /\ flatMap = createEmptyStructure
    /\ selectedNodeIds = {}
    /\ expandedNodeIds = {}
    /\ images = << >>
    /\ selectedImageIds = {}
    /\ nextId = 1
    /\ disposed = FALSE
    /\ out = NoOutput
    /\ watchers = << >>
    /\ delivered = << >>
    /\ sent = << >>
    /\ last = Call("constructor", "none", 0)

NextScan ==
    \E includeImages \in BOOLEAN, includeSubdirectories \in BOOLEAN :
        ScanDirectoryStructure(includeImages, includeSubdirectories)

SpecScan == InitScan /\ [][NextScan]_vars

\* ------------------------------------------------------------------ claims
Keys == DOMAIN flatMap

\* the number of times id occurs in the sequence children
Occurrences(children, id) ==
    Cardinality({ i \in DOMAIN children : children[i] = id })

\* the ids reachable from id through children edges, id excluded
RECURSIVE Descendants(_, _)
Descendants(map, id) ==
    IF id \notin DOMAIN map
    THEN {}
    ELSE LET kids == { map[id].children[i] : i \in DOMAIN map[id].children }
         IN  kids \cup UNION { Descendants(map, k) : k \in kids }

\* the nodes reachable from the root object; once the root has left the flat
\* index no key of the flat index is reachable from it
ReachableFromRoot == {RootId} \cup Descendants(flatMap, RootId)

\* C1: before dispose(), every node other than root appears exactly once in
\* the children of flatMap[parentId], and the keys of flatMap are exactly the
\* nodes reachable from root through children edges.
C1_TreeMatchesFlatIndex ==
    ~disposed =>
        /\ \A n \in Keys \ {RootId} :
              /\ flatMap[n].parentId \in Keys
              /\ Occurrences(flatMap[flatMap[n].parentId].children, n) = 1
        /\ Keys = ReachableFromRoot

\* C2: a removeNode(id) call for an id in the flat index leaves neither id nor
\* any node that was reachable from id through children edges in flatMap, in
\* selectedNodeIds or in expandedNodeIds, and id is no longer among the
\* children of its former parent.
C2_RemoveNodePurgesSubtree ==
    [][\A id \in Keys :
          RemoveNode(id) =>
              LET gone == {id} \cup Descendants(flatMap, id)
                  parentId == flatMap[id].parentId
              IN  /\ gone \cap DOMAIN flatMap' = {}
                  /\ gone \cap selectedNodeIds' = {}
                  /\ gone \cap expandedNodeIds' = {}
                  /\ parentId \in DOMAIN flatMap' =>
                         Occurrences(flatMap'[parentId].children, id) = 0]_vars

\* C2 witness: a removeNode call has deleted a subtree two levels deep
C2_Witness ==
    /\ last.op = "removeNode"
    /\ last.target = "directory"
    /\ last.depth >= 2

\* C3: addDirectory and addImageNode with a parentId that does not resolve
\* in the flat index leave the flat index, every child sequence, the
\* selection set and the expansion set unchanged.
C3_UnresolvedParentIsNoOp ==
    [][\A p \in PathArgs, parentId \in NodeArgIds \ Keys, s \in SizeArgs :
          (AddDirectory(p, parentId) \/ AddImageNode(p, parentId, s))
              => UNCHANGED treeVars]_vars

\* C5: removeNode(id) with an id that is not in the flat index changes
\* nothing, and removeNode(id) twice leaves the state of a single
\* removeNode(id).
C5_RemoveNodeIdempotent ==
    \A id \in NodeArgIds :
        /\ id \notin Keys => removeNode(Store, id) = Store
        /\ removeNode(removeNode(Store, id), id) = removeNode(Store, id)

\* C5 witness: removeNode was called with an unknown id, one that the
\* selection set holds, on a tree with nodes besides the root
C5_Witness ==
    /\ last.op = "removeNode"
    /\ last.target = "unknown"
    /\ UnknownId \in selectedNodeIds
    /\ Cardinality(Keys) >= 2

\* C6: every directory node in the flat index, root included, has
\* isExpanded = (its id is a member of expandedNodeIds).
C6_ExpandedFlagMirrorsSet ==
    \A n \in Keys :
        flatMap[n].type = "directory" =>
            (flatMap[n].isExpanded <=> n \in expandedNodeIds)

\* C7: toggleNodeExpansion(id) changes nothing when id is unknown or names an
\* image node, and every member of expandedNodeIds is the id of a directory
\* node present in the flat index.
C7_ExpansionSetHoldsDirectories ==
    [][/\ \A id \in NodeArgIds :
             (ToggleNodeExpansion(id) /\ Target(id) # "directory")
                 => UNCHANGED treeVars
       /\ expandedNodeIds' \subseteq
              { n \in DOMAIN flatMap' : flatMap'[n].type = "directory" }]_vars

\* C7 witness: toggleNodeExpansion was called on an image node while a
\* directory node other than root is expanded
C7_Witness ==
    /\ last.op = "toggleNodeExpansion"
    /\ last.target = "image"
    /\ expandedNodeIds \ {RootId} # {}

\* C8: selectedNodeIds is a subset of the flat index's keys (a
\* toggleNodeSelection with an unknown id being a no-op).
C8_SelectionWithinFlatIndex == selectedNodeIds \subseteq Keys

\* C10: once dispose() has been called the flat index, the node selection
\* set, the expansion set, the registry's records and the registry's
\* selection set are empty, whatever is called afterwards.
C10_DisposeIsTerminal ==
    disposed =>
        /\ Keys = {}
        /\ selectedNodeIds = {}
        /\ expandedNodeIds = {}
        /\ DOMAIN images = {}
        /\ selectedImageIds = {}

\* the sum of f[x] over the elements x of S
RECURSIVE SumOver(_, _)
SumOver(f, S) ==
    IF S = {}
    THEN 0
    ELSE LET x == CHOOSE y \in S : TRUE
         IN  f[x] + SumOver(f, S \ {x})

\* C9: getDirectoryStats(prefix) returns totalImages = the number of image
\* nodes whose path starts with prefix, openEyeImages / closedEyeImages = the
\* number of those detected open / closed (together the detected count, at
\* most totalImages), totalSize = the sum of their sizes, averageConfidence =
\* the confidences of the detected ones summed, over their number, or 0 when
\* none is detected.
C9_StatsAreCounts ==
    out.op = "getDirectoryStats" =>
        LET matched == { n \in Keys : /\ flatMap[n].type = "image"
                                      /\ StartsWith(flatMap[n].path, out.directoryPath) }
            detected == { n \in matched : flatMap[n].eyeDetection.detected }
            confidence == [n \in detected |-> flatMap[n].eyeDetection.confidence]
            size == [n \in matched |-> flatMap[n].size]
            stats == out.stats
        IN  /\ stats.totalImages = Cardinality(matched)
            /\ stats.openEyeImages =
                   Cardinality({ n \in detected : flatMap[n].eyeDetection.isOpen })
            /\ stats.closedEyeImages =
                   Cardinality({ n \in detected : ~flatMap[n].eyeDetection.isOpen })
            /\ stats.openEyeImages + stats.closedEyeImages = Cardinality(detected)
            /\ stats.openEyeImages + stats.closedEyeImages <= stats.totalImages
            /\ stats.totalSize = SumOver(size, matched)
            /\ stats.averageConfidence.den > 0
            /\ IF detected = {}
               THEN stats.averageConfidence.num = 0
               ELSE stats.averageConfidence.num * Cardinality(detected) =
                        SumOver(confidence, detected) * stats.averageConfidence.den

\* C9 witness: the statistics of '/' over three images, one open at 0.8, one
\* closed at 0.6, one undetected, are 3, 1, 1 and 0.7 (70 hundredths)
C9_Witness ==
    /\ out.op = "getDirectoryStats"
    /\ out.directoryPath = <<"/">>
    /\ Cardinality({ n \in Keys : flatMap[n].type = "image"
                                   /\ ~flatMap[n].eyeDetection.detected }) = 1
    /\ out.stats.totalImages = 3
    /\ out.stats.openEyeImages = 1
    /\ out.stats.closedEyeImages = 1
    /\ out.stats.averageConfidence.num = 70 * out.stats.averageConfidence.den

\* C4: a scan of an unchanged directory, reconciled into the tree store
\* right after the same scan was reconciled, leaves the tree as it was: the
\* same node ids with the same paths, no node created, none removed, and no
\* two nodes for one path.
C4_RescanChangesNothing ==
    [][\A includeImages \in BOOLEAN, includeSubdirectories \in BOOLEAN :
          (/\ ScanDirectoryStructure(includeImages, includeSubdirectories)
           /\ out'.again
           /\ last.op = "scanDirectoryStructure")
              => /\ flatMap' = flatMap
                 /\ nextId' = nextId
                 /\ \A m, n \in DOMAIN flatMap' :
                        flatMap'[m].path = flatMap'[n].path => m = n]_vars

\* C4 witness: a directory with a nested directory and images has been
\* scanned and reconciled twice in a row
C4_Witness ==
    /\ out.op = "scanDirectoryStructure"
    /\ out.again
    /\ last.op = "scanDirectoryStructure"
    /\ Len(out.result.directories) >= 2
    /\ Len(out.result.images) >= 2
    /\ Cardinality(Keys) = 1 + Len(out.result.directories) + Len(out.result.images)

\* C11: a scan whose rootPath does not exist or is not a directory returns
\* (it does not throw) success = false with directories = [], images = [] and
\* a non-empty error, and changes nothing in the tree store or the image
\* registry; a result with success = true carries no error.
C11_ScanFailureIsTyped ==
    [][out'.op = "SCAN_DIRECTORY_STRUCTURE" =>
          LET result == out'.result
              rootPath == out'.rootPath
              noDirectory == /\ rootPath # <<>>
                             /\ \/ rootPath \notin DOMAIN fs
                                \/ fs[rootPath].kind = "file"
          IN  /\ result.success \in BOOLEAN
              /\ noDirectory =>
                     /\ result.success = FALSE
                     /\ result.directories = <<>>
                     /\ result.images = <<>>
                     /\ "error" \in DOMAIN result
                     /\ result.error # ""
              /\ result.success => "error" \notin DOMAIN result
              /\ UNCHANGED <<treeVars, registryVars>>]_vars

\* C11 witness: a scan of a rootPath that is a file has returned a failure
C11_Witness ==
    /\ out.op = "SCAN_DIRECTORY_STRUCTURE"
    /\ out.rootPath = <<"p.JPG">>
    /\ out.rootPath \in DOMAIN fs
    /\ ~out.result.success

\* the entries whose stat or readdir fails
FailingEntries(dir) ==
    { p \in DOMAIN dir : dir[p].statFails \/ dir[p].readdirFails }

\* dir without the entries in S and the entries below them
Without(dir, S) ==
    LET kept == { p \in DOMAIN dir : \A n \in 1 .. Len(p) : SubSeq(p, 1, n) \notin S }
    IN  [p \in kept |-> dir[p]]

\* C12: when the stat of an entry or the readdir of a subdirectory fails, a
\* scan of an accessible rootPath returns success = true, and its records of
\* the other entries are, in the same order, the records of the scan of the
\* directory without the failing entries.
C12_FailingEntryIsSkipped ==
    (/\ out.op = "SCAN_DIRECTORY_STRUCTURE"
     /\ existsSync(fs, out.rootPath)
     /\ out.rootPath \in DOMAIN fs =>
            /\ fs[out.rootPath].kind = "directory"
            /\ out.rootPath \notin FailingEntries(fs))
    => LET failing == { RelativePath(out.rootPath, p) : p \in FailingEntries(fs) }
           others(records) == SelectSeq(records, LAMBDA r : r.path \notin failing)
           absent == scanDirectoryStructure(Without(fs, FailingEntries(fs)), out.rootPath,
                                            out.includeImages, out.includeSubdirectories)
       IN  /\ out.result.success
           /\ others(out.result.directories) = absent.directories
           /\ others(out.result.images) = absent.images

\* C12 witness: the stat of the directory d failed, and the scan lists its
\* later sibling e, the image below e and the image next to them
C12_Witness ==
    /\ out.op = "SCAN_DIRECTORY_STRUCTURE"
    /\ out.rootPath = <<>>
    /\ <<"d">> \in DOMAIN fs
    /\ fs[<<"d">>].statFails
    /\ out.result.success
    /\ \E i \in DOMAIN out.result.directories : out.result.directories[i].path = <<"e">>
    /\ \E i \in DOMAIN out.result.images :
           out.result.images[i].path = <<"e", "/", "q.png">>
    /\ \E i \in DOMAIN out.result.images : out.result.images[i].path = <<"p.JPG">>

\* the entries that a scan of rootPath stats: the entries below rootPath
\* whose stat succeeds, in directories that the scan reads
Visited(dir, rootPath, includeSubdirectories) ==
    { p \in DOMAIN dir :
        /\ Len(p) > Len(rootPath)
        /\ SubSeq(p, 1, Len(rootPath)) = rootPath
        /\ includeSubdirectories \/ Len(p) = Len(rootPath) + 1
        /\ ~dir[p].statFails
        /\ \A n \in Len(rootPath) .. (Len(p) - 1) :
               LET above == SubSeq(p, 1, n)
               IN  above \in DOMAIN dir =>
                       /\ ~dir[above].readdirFails
                       /\ n > Len(rootPath) => ~dir[above].statFails }

\* the paths of a sequence of records
Paths(records) == [i \in DOMAIN records |-> records[i].path]

\* C13: with includeImages = true a regular file that the scan visits is in
\* images if and only if its lower-cased extension is one of jpg, jpeg, png,
\* gif, bmp, webp, svg, tiff, tif, whatever the file holds and whatever the
\* dimension probing gives; mimeType follows from the extension (image/jpeg
\* for photo.JPG) and is never application/octet-stream.
C13_ImagesByExtension ==
    (/\ out.op = "SCAN_DIRECTORY_STRUCTURE"
     /\ out.result.success
     /\ out.includeImages)
    => LET imageInfos == out.result.images
           plain == scanDirectoryStructure(WithContent(fs, "other"), out.rootPath,
                                           TRUE, out.includeSubdirectories)
       IN  /\ \A p \in Visited(fs, out.rootPath, out.includeSubdirectories) :
                  fs[p].kind = "file" =>
                      ((\E i \in DOMAIN imageInfos :
                            PathOf(out.rootPath) \o <<"/">> \o imageInfos[i].path = PathOf(p))
                       <=> ToLowerCase(ExtName(p[Len(p)])) \in
                               { ".jpg", ".jpeg", ".png", ".gif", ".bmp", ".webp",
                                 ".svg", ".tiff", ".tif" })
           /\ Paths(imageInfos) = Paths(plain.images)
           /\ \A i \in DOMAIN imageInfos :
                  /\ imageInfos[i].mimeType # "application/octet-stream"
                  /\ imageInfos[i].name = "p.JPG" => imageInfos[i].mimeType = "image/jpeg"
                  /\ imageInfos[i].name = "q.png" => imageInfos[i].mimeType = "image/png"

\* C13 witness: p.JPG, which cannot be read, is listed as image/jpeg without
\* dimensions, and n.txt next to it is not listed
C13_Witness ==
    /\ out.op = "SCAN_DIRECTORY_STRUCTURE"
    /\ out.rootPath = <<>>
    /\ out.includeImages
    /\ <<"n.txt">> \in DOMAIN fs
    /\ <<"p.JPG">> \in DOMAIN fs
    /\ fs[<<"p.JPG">>].content = "unreadable"
    /\ \E i \in DOMAIN out.result.images :
           /\ out.result.images[i].path = <<"p.JPG">>
           /\ out.result.images[i].mimeType = "image/jpeg"
           /\ "dimensions" \notin DOMAIN out.result.images[i]
    /\ \A i \in DOMAIN out.result.images : out.result.images[i].name # "n.txt"

\* C14: with includeSubdirectories = false every record is an immediate child
\* of rootPath (its path has one segment); with includeImages = false images
\* is empty and directories is what it is with includeImages = true.
C14_FlagsLimitTheScan ==
    (/\ out.op = "SCAN_DIRECTORY_STRUCTURE"
     /\ out.result.success)
    => /\ ~out.includeSubdirectories =>
              /\ \A i \in DOMAIN out.result.directories :
                     Len(out.result.directories[i].path) = 1
              /\ \A i \in DOMAIN out.result.images :
                     Len(out.result.images[i].path) = 1
       /\ ~out.includeImages =>
              /\ out.result.images = <<>>
              /\ out.result.directories =
                     scanDirectoryStructure(fs, out.rootPath, TRUE,
                                            out.includeSubdirectories).directories

\* C14 witness: a scan with both flags false of a directory that holds an
\* image and a directory with a directory in it has listed directories
C14_Witness ==
    /\ out.op = "SCAN_DIRECTORY_STRUCTURE"
    /\ out.rootPath = <<>>
    /\ ~out.includeSubdirectories
    /\ ~out.includeImages
    /\ { <<"d">>, <<"d", "e">>, <<"d", "p.JPG">>, <<"p.JPG">> } \subseteq DOMAIN fs
    /\ FailingEntries(fs) = {}
    /\ out.result.success
    /\ Len(out.result.directories) >= 1

\* the path of a record lies below rootPath and is written relative to it
IsRelative(dir, rootPath, path) ==
    /\ path # <<>>
    /\ path[1] # "/"
    /\ \E p \in DOMAIN dir : PathOf(rootPath) \o <<"/">> \o path = PathOf(p)

\* C15: every DirectoryInfo and ImageInfo record has a path relative to
\* rootPath; the direct children of rootPath, directories and images alike,
\* have the root parentPath, represented as undefined or empty; the parentPath
\* of every other record is the path of a DirectoryInfo record of the result.
C15_RootChildrenHaveNoParentPath ==
    (/\ out.op = "SCAN_DIRECTORY_STRUCTURE"
     /\ out.result.success)
    => LET directories == out.result.directories
           records == { directories[i] : i \in DOMAIN directories }
                      \cup { [path |-> out.result.images[i].path,
                              name |-> out.result.images[i].name,
                              parentPath |-> out.result.images[i].parentPath] :
                             i \in DOMAIN out.result.images }
       IN  \A r \in records :
               /\ IsRelative(fs, out.rootPath, r.path)
               /\ IF Len(r.path) = 1
                  THEN r.parentPath \in { PathUndefined, <<>> }
                  ELSE \E i \in DOMAIN directories : directories[i].path = r.parentPath

\* C15, amended: every DirectoryInfo and ImageInfo record has a path relative
\* to rootPath; a directory directly under rootPath has parentPath undefined,
\* an image directly under rootPath has parentPath '/'; the parentPath of
\* every other record is the path of a DirectoryInfo record of the result.
C15_ParentPathsResolve ==
    (/\ out.op = "SCAN_DIRECTORY_STRUCTURE"
     /\ out.result.success)
    => LET directories == out.result.directories
           imageInfos == out.result.images
       IN  /\ \A i \in DOMAIN directories :
                  /\ IsRelative(fs, out.rootPath, directories[i].path)
                  /\ IF Len(directories[i].path) = 1
                     THEN directories[i].parentPath = PathUndefined
                     ELSE \E j \in DOMAIN directories :
                              directories[j].path = directories[i].parentPath
           /\ \A i \in DOMAIN imageInfos :
                  /\ IsRelative(fs, out.rootPath, imageInfos[i].path)
                  /\ IF Len(imageInfos[i].path) = 1
                     THEN imageInfos[i].parentPath = << "/" >>
                     ELSE \E j \in DOMAIN directories :
                              directories[j].path = imageInfos[i].parentPath

\* C15 witness: a scan of the directory d lists the image directly under it
\* and the image e/q.png, whose parentPath is the path of the record of e
C15_Witness ==
    /\ out.op = "SCAN_DIRECTORY_STRUCTURE"
    /\ out.rootPath = <<"d">>
    /\ out.result.success
    /\ \E i \in DOMAIN out.result.images :
           /\ out.result.images[i].path = <<"p.JPG">>
           /\ out.result.images[i].parentPath = << "/" >>
    /\ \E i \in DOMAIN out.result.images :
           /\ out.result.images[i].path = <<"e", "/", "q.png">>
           /\ out.result.images[i].parentPath = <<"e">>
    /\ \E i \in DOMAIN out.result.directories :
           /\ out.result.directories[i].path = <<"e">>
           /\ out.result.directories[i].parentPath = PathUndefined

\* C16: updateEyeDetection(id, result) and updateImage(id, updates) with an
\* id the registry does not hold leave the registry unchanged and create no
\* record; the key set of the registry grows through addImage only.
C16_UnknownIdUpdatesNothing ==
    [][/\ \A id \in ImageArgIds, updates \in UpdateArgs :
              (id \notin DOMAIN images /\ UpdateImage(id, updates))
                  => UNCHANGED registryVars
       /\ \A id \in ImageArgIds, d \in EyeDetections :
              (id \notin DOMAIN images /\ UpdateEyeDetection(id, d))
                  => UNCHANGED registryVars
       /\ (DOMAIN images' \ DOMAIN images # {})
              => \E p \in PathArgs, s \in SizeArgs : AddImage(p, s)]_vars

\* C16 witness: updateEyeDetection was called with an id that a registry of
\* two records does not hold: neither record has a detection result
C16_Witness ==
    /\ last.op = "updateEyeDetection"
    /\ Cardinality(DOMAIN images) = 2
    /\ \A id \in DOMAIN images : ~images[id].eyeDetection.detected

\* C17: selectImages(ids) leaves exactly the ids of the call selected,
\* whatever was selected before; selectImages([]) leaves nothing selected.
C17_SelectImagesReplaces ==
    [][\A ids \in IdArrays :
          SelectImages(ids) =>
              /\ selectedImageIds' = { ids[i] : i \in DOMAIN ids }
              /\ ids = <<>> => selectedImageIds' = {}]_vars

\* C17 witness: selectImages was called with one id while another id was
\* selected, and only the id of the call is selected
C17_Witness ==
    /\ last.op = "selectImages"
    /\ last.target = "dropped"
    /\ last.depth = 1
    /\ Cardinality(selectedImageIds) = 1
    /\ selectedImageIds \subseteq DOMAIN images

\* C18: detectedImages and undetectedImages partition allImages,
\* openEyeImages and closedEyeImages partition detectedImages, and a record
\* with isOpen = false is in closedEyeImages and in detectedImages and not in
\* undetectedImages.
C18_ViewsPartition ==
    LET all == Elements(allImages(images))
        open == Elements(openEyeImages(images))
        closed == Elements(closedEyeImages(images))
        detected == Elements(detectedImages(images))
        undetected == Elements(undetectedImages(images))
    IN  /\ detected \cup undetected = all
        /\ detected \cap undetected = {}
        /\ Len(detectedImages(images)) + Len(undetectedImages(images))
               = Len(allImages(images))
        /\ open \cup closed = detected
        /\ open \cap closed = {}
        /\ Len(openEyeImages(images)) + Len(closedEyeImages(images))
               = Len(detectedImages(images))
        /\ \A id \in DOMAIN images :
               (images[id].eyeDetection.detected /\ images[id].eyeDetection.isOpen = FALSE)
                   => /\ images[id] \in closed
                      /\ images[id] \in detected
                      /\ images[id] \notin undetected

\* C18 witness: the registry holds a record detected closed and a record
\* without a detection result
C18_Witness ==
    /\ \E id \in DOMAIN images :
           images[id].eyeDetection.detected /\ ~images[id].eyeDetection.isOpen
    /\ \E id \in DOMAIN images : ~images[id].eyeDetection.detected

\* C19: every change event that a watch callback is run for is eventually
\* followed by a refresh, whether or not the event has a filename: the n-th
\* event leads to the n-th DIRECTORY_CHANGED message, the only thing that
\* makes the renderer refresh.
C19_EventTriggersRefresh ==
    \A n \in 1 .. MaxEvents : (Len(delivered) >= n) ~> (Len(sent) >= n)

\* C20: after any sequence of watchDirectory calls, repeated calls on one
\* path included, at most one live watch handle exists per path.
C20_OneHandlePerPath ==
    \A i, j \in DOMAIN watchers :
        watchers[i].directoryPath = watchers[j].directoryPath => i = j

C22_RootStaysInFlatIndex ==
    ~disposed =>
        /\ RootId \in DOMAIN flatMap
        /\ flatMap[RootId].id = RootId
        /\ flatMap[RootId].path = << "/" >>
        /\ \A id \in DOMAIN flatMap : flatMap[id].parentId = Undefined => id = RootId

\* C23: no two nodes of the flat index have the same path, so that
\* getNodeByPath(p) has at most one node to find for every path p.
C23_PathsAreUnique ==
    \A id \in DOMAIN flatMap, other \in DOMAIN flatMap :
        flatMap[id].path = flatMap[other].path => id = other

\* the place of a name in the listing of its directory
Rank(name) == CHOOSE i \in DOMAIN NameOrder : NameOrder[i] = name

\* the record path lies below the directory path
Below(path, directoryPath) == StartsWith(path, directoryPath \o << "/" >>)

\* the path of the directory that holds the entry of a record path
ParentOf(path) == IF Len(path) <= 2 THEN <<>> ELSE SubSeq(path, 1, Len(path) - 2)

\* the record path is that of a later sibling of the directory path, or lies
\* below a later sibling
AtLaterSibling(path, directoryPath) ==
    /\ Len(path) >= Len(directoryPath)
    /\ LET sibling == SubSeq(path, 1, Len(directoryPath))
       IN  /\ ParentOf(sibling) = ParentOf(directoryPath)
           /\ Rank(sibling[Len(sibling)]) > Rank(directoryPath[Len(directoryPath)])

\* the records of the sequence that lie below the directory path come before
\* those at its later siblings
SubtreeFirst(records, directoryPath) ==
    \A r \in DOMAIN records, s \in DOMAIN records :
        (Below(records[r].path, directoryPath)
         /\ AtLaterSibling(records[s].path, directoryPath)) => r < s

C25_TotalStatsCoversTree ==
    totalStats(flatMap).totalImages =
        Cardinality({ id \in DOMAIN flatMap : flatMap[id].type = "image" })

\* C26: before dispose(), addDirectory, addImageNode, removeNode,
\* toggleNodeSelection, toggleNodeExpansion and the tree's clearSelection
\* leave the registry's records and its selection set unchanged (removing an
\* image node removes no registry record), and every operation of the
\* registry leaves the flat index, the child sequences, the node selection
\* set and the expansion set unchanged.
C26_StoresAreIndependent ==
    [][/\ last'.op \in { "addDirectory", "addImageNode", "removeNode",
                         "toggleNodeSelection", "toggleNodeExpansion",
                         "clearSelection" }
              => UNCHANGED registryVars
       /\ last'.op \in { "addImage", "updateImage", "updateEyeDetection",
                         "removeImage", "toggleImageSelection", "selectImages",
                         "image.clearSelection", "image.dispose" }
              => UNCHANGED treeVars]_vars

\* C26 witness: removeNode has removed an image node while the registry
\* holds a record of the same path, which is selected
C26_Witness ==
    /\ last.op = "removeNode"
    /\ last.target = "image"
    /\ ~disposed
    /\ \E id \in DOMAIN images :
           /\ images[id].path \in PathArgs
           /\ id \in selectedImageIds
    /\ \A id \in DOMAIN flatMap : flatMap[id].type = "directory"

====
